---- MODULE Spec2Model ----
(***************************************************************************)
(* Sync-context assembly of airweave:                                      *)
(*   - SyncContextFactory (backend/app/platform/sync/context.py),          *)
(*   - IntegrationSettings, the auth catalog                               *)
(*     (backend/airweave/platform/auth/settings.py),                       *)
(*   - ResourceLocator (backend/airweave/platform/locator.py),             *)
(*   - the DAG schemas (backend/app/schemas/dag.py).                       *)
(* Three specifications share the module: Spec (one run of                 *)
(* SyncContextFactory.create), SpecCatalog (loading the catalog and        *)
(* looking integrations up) and SpecDag (building a DAG definition).       *)
(***************************************************************************)
EXTENDS Naturals, Sequences, FiniteSets, TLC

VARIABLES
    \* ---- one run of SyncContextFactory.create ----
    db,               \* persistence collaborator: connection, source, credential rows
    provider,         \* OAuth provider: the refresh token it accepts, what it replied
    args,             \* the arguments create was called with
    pc,               \* position of the run inside create and its helpers
    local,            \* locals of _create_source_instance and its helpers
    source,           \* create's local `source`       (None until constructed)
    embedding_model,  \* create's local `embedding_model`
    destination,      \* create's local `destination`
    transformers,     \* create's local `transformers`
    result,           \* what create returned to its caller (None: nothing)
    error,            \* the exception that left create      (None: none)
    log,              \* the collaborator calls made so far, in order
    \* ---- IntegrationSettings ----
    document,         \* the "integrations" mapping of the YAML file, in file order
    cat_pc,           \* "new" | "loaded" | "failed"
    integration_settings,  \* the module-level catalog object (None: not bound)
    cat_error,        \* the exception that left IntegrationSettings(...)
    lookup,           \* the last get_by_short_name call and its outcome
    \* ---- DAG schemas ----
    nodes,            \* DagNode objects constructed so far
    edges,            \* DagEdge objects constructed so far
    definition        \* the SyncDagDefinition constructed from them (None: none)

asmVars == <<db, provider, args, pc, local, source, embedding_model, destination,
             transformers, result, error, log>>
catVars == <<document, cat_pc, integration_settings, cat_error, lookup>>
dagVars == <<nodes, edges, definition>>
vars == <<db, provider, args, pc, local, source, embedding_model, destination,
          transformers, result, error, log,
          document, cat_pc, integration_settings, cat_error, lookup,
          nodes, edges, definition>>

\* Python's None where an object is expected, and where a scalar is expected.
None == [kind |-> "None"]
Null == "null"

(***************************************************************************)
(* AuthType, as enumerated by the catalog's mapping.                       *)
(***************************************************************************)
AuthType ==
    {"oauth2", "trello_auth", "api_key", "oauth2_with_refresh",
     "oauth2_with_refresh_rotating", "native_functionality", "config_class",
     "sigv4", "none"}

(***************************************************************************)
(* Values of the run.                                                      *)
(***************************************************************************)
StoredAccessToken == "at_stored"
StoredRefreshToken == "rt_stored"
RotatedRefreshToken == "rt_rotated"
\* the access tokens the provider's refresh endpoint may issue
FreshAccessTokens == {"at_fresh_1", "at_fresh_2"}

\* credentials.encrypt / credentials.decrypt: the payload is a wrapper around
\* the named fields; decrypt unwraps it.
encrypt(fields) == [kind |-> "ciphertext", plain |-> fields]
decrypt(payload) == payload.plain

Connection(cred_id) ==
    [kind |-> "Connection", id |-> "conn-1", short_name |-> "src",
     integration_credential_id |-> cred_id]
SourceModel(auth_type, auth_config_class) ==
    [kind |-> "Source", short_name |-> "src", class_name |-> "SrcSource",
     auth_type |-> auth_type, auth_config_class |-> auth_config_class]
IntegrationCredential(refresh_token) ==
    [kind |-> "IntegrationCredential",
     encrypted_credentials |->
        encrypt([access_token |-> StoredAccessToken, refresh_token |-> refresh_token])]

Sync == [kind |-> "Sync", id |-> "sync-1", source_connection_id |-> "conn-1"]
SyncJob == [kind |-> "SyncJob", id |-> "job-1"]
SyncDag == [kind |-> "SyncDag", id |-> "dag-1"]
WhiteLabel == [kind |-> "WhiteLabel", id |-> "wl-1"]

Error(type, msg, raised_by) ==
    [kind |-> "Error", type |-> type, msg |-> msg, raised_by |-> raised_by]

\* The attributes class SyncContextFactory defines.
SyncContextFactoryAttrs ==
    {"create", "_create_source_instance", "_create_oauth2_with_refresh_source",
     "_create_oauth2_source", "_create_other_auth_source",
     "_get_integration_credential", "_get_embedding_model",
     "_create_destination_instance", "_get_transformer_callables",
     "_get_entity_definition_map"}

SyncContext(src, dst, emb, trf, sync, sync_job, dag, progress, router, white_label) ==
    [kind |-> "SyncContext", source |-> src, destination |-> dst,
     embedding_model |-> emb, transformers |-> trf, sync |-> sync,
     sync_job |-> sync_job, dag |-> dag, progress |-> progress,
     router |-> router, white_label |-> white_label]

NoLocal ==
    [branch |-> Null, source_class |-> None, credential |-> None,
     refresh_token |-> Null, oauth2_response |-> None,
     decrypted_credential |-> None, auth_config |-> None,
     source_credentials |-> None]

(***************************************************************************)
(* The state in which create is called.                                    *)
(***************************************************************************)
AsmInit ==
    /\ db \in [connection : {None} \cup {Connection(c) : c \in {Null, "cred-1"}},
               source : {None} \cup {SourceModel(t, a) : t \in AuthType,
                                                      a \in {Null, "SrcAuthConfig"}},
               credential : {None, IntegrationCredential(StoredRefreshToken)}]
    /\ provider = [valid_refresh_token |-> StoredRefreshToken, reply |-> None]
    /\ args \in [sync : {Sync}, sync_job : {SyncJob}, dag : {SyncDag},
                 white_label : {None, WhiteLabel}]
    /\ pc = "get_connection"
    /\ local = NoLocal
    /\ source = None
    /\ embedding_model = None
    /\ destination = None
    /\ transformers = None
    /\ result = None
    /\ error = None
    /\ log = <<>>

AsmIdle ==
    /\ db = [connection |-> None, source |-> None, credential |-> None]
    /\ provider = [valid_refresh_token |-> StoredRefreshToken, reply |-> None]
    /\ args = [sync |-> Sync, sync_job |-> SyncJob, dag |-> SyncDag, white_label |-> None]
    /\ pc = "idle"
    /\ local = NoLocal
    /\ source = None
    /\ embedding_model = None
    /\ destination = None
    /\ transformers = None
    /\ result = None
    /\ error = None
    /\ log = <<>>

\* Mutant: the failure is caught and what was built so far is handed back.
Raise_ReturnsPartial(e) ==
    /\ pc' = "failed"
    /\ error' = e
    /\ result' = [kind |-> "SyncContext", source |-> source]

\* An exception leaves create: nothing is returned, nothing is undone.
Raise(e) ==
    /\ pc' = "failed"
    /\ error' = e
    /\ UNCHANGED result

(***************************************************************************)
(* ResourceLocator: a class is named by the unit it is imported from and   *)
(* the attribute read from that unit.                                      *)
(***************************************************************************)
get_source(source_model) ==
    [kind |-> "class", unit |-> "sources", short_name |-> source_model.short_name,
     name |-> source_model.class_name]

get_auth_config(auth_config_class, auth_type) ==
    CASE auth_type = "sigv4" ->
            [kind |-> "class", unit |-> "configs.sigv4", name |-> auth_config_class]
      [] auth_type = "config_class" ->
            [kind |-> "class", unit |-> "configs.auth", name |-> auth_config_class]
      [] OTHER ->
            [kind |-> "class", unit |-> "configs.auth", name |-> auth_config_class]

get_transformer(transformer) ==
    [kind |-> "callable", unit |-> transformer.module_name,
     name |-> transformer.method_name]

\* crud.transformer.get_all: the registered transformer descriptors.
TransformerRows ==
    {[module_name |-> "transformers.chunker", method_name |-> "chunk"],
     [module_name |-> "transformers.summarizer", method_name |-> "summarize"]}

(***************************************************************************)
(* _create_source_instance: the branch taken for an auth type.             *)
(***************************************************************************)
\* Mutant: the rotating strategy is left out of the refresh list.
SourceBranch_RotatingLeftOut(auth_type) ==
    IF auth_type = "none" THEN "no_auth"
    ELSE IF auth_type \in {"oauth2_with_refresh"} THEN "oauth2_with_refresh"
    ELSE IF auth_type \in {"oauth2", "oauth2_with_refresh_rotating"} THEN "oauth2"
    ELSE "other"

SourceBranch(auth_type) ==
    IF auth_type = "none" THEN "no_auth"
    ELSE IF auth_type \in {"oauth2_with_refresh", "oauth2_with_refresh_rotating"}
         THEN "oauth2_with_refresh"
    ELSE IF auth_type = "oauth2" THEN "oauth2"
    ELSE "other"

FirstStep(branch) ==
    CASE branch = "no_auth" -> "construct_source"
      [] branch = "oauth2_with_refresh" -> "refresh_check"
      [] OTHER -> "check_credential"

\* The arguments source_class.create is called with on each branch.
AccessTokenArg(t) == [kind |-> "access_token", token |-> t]
\* Mutant: the refresh branch hands over the wrong field of the response.
SourceArgs_WrongResponseField(l) ==
    CASE l.branch = "no_auth" -> <<>>
      [] l.branch = "oauth2_with_refresh" ->
            <<AccessTokenArg(l.oauth2_response.refresh_token)>>
      [] l.branch = "oauth2" ->
            <<AccessTokenArg(l.decrypted_credential.access_token)>>
      [] OTHER -> <<l.source_credentials>>

SourceArgs(l) ==
    CASE l.branch = "no_auth" -> <<>>
      [] l.branch = "oauth2_with_refresh" ->
            <<AccessTokenArg(l.oauth2_response.access_token)>>
      [] l.branch = "oauth2" ->
            <<AccessTokenArg(l.decrypted_credential.access_token)>>
      [] OTHER -> <<l.source_credentials>>

\* Mutant: the check of the credential reference is dropped.
HasCredentialRef_Unchecked(connection) == TRUE

\* `if not source_connection.integration_credential_id`
HasCredentialRef(connection) == connection.integration_credential_id # Null

\* crud.integration_credential.get: the row with that id, if any.
CredentialRow(id) == IF id = "cred-1" THEN db.credential ELSE None

(***************************************************************************)
(* _create_source_instance                                                 *)
(***************************************************************************)
GetConnection ==
    /\ pc = "get_connection"
    /\ log' = Append(log, "crud.connection.get")
    /\ IF db.connection = None
       THEN Raise(Error("NotFoundException", "Source connection not found", "precondition"))
       ELSE pc' = "get_source_model" /\ UNCHANGED <<error, result>>
    /\ UNCHANGED <<db, provider, args, local, source, embedding_model, destination,
                   transformers>>
    /\ UNCHANGED <<catVars, dagVars>>

GetSourceModel ==
    /\ pc = "get_source_model"
    /\ log' = Append(log, "crud.source.get_by_short_name")
    /\ IF db.source = None
       THEN Raise(Error("NotFoundException", "Source not found", "precondition"))
       ELSE pc' = "get_source_class" /\ UNCHANGED <<error, result>>
    /\ UNCHANGED <<db, provider, args, local, source, embedding_model, destination,
                   transformers>>
    /\ UNCHANGED <<catVars, dagVars>>

GetSourceClass ==
    /\ pc = "get_source_class"
    /\ log' = Append(log, "resource_locator.get_source")
    /\ \E ok \in BOOLEAN :
         IF ok
         THEN /\ local' = [local EXCEPT !.source_class = get_source(db.source),
                                        !.branch = SourceBranch(db.source.auth_type)]
              /\ pc' = FirstStep(SourceBranch(db.source.auth_type))
              /\ UNCHANGED <<error, result>>
         ELSE /\ Raise(Error("ImportError", "source class not resolvable", "collaborator"))
              /\ UNCHANGED local
    /\ UNCHANGED <<db, provider, args, source, embedding_model, destination,
                   transformers>>
    /\ UNCHANGED <<catVars, dagVars>>

(***************************************************************************)
(* _create_oauth2_source and _create_other_auth_source                     *)
(***************************************************************************)
CheckCredential ==
    /\ pc = "check_credential"
    /\ IF HasCredentialRef(db.connection)
       THEN pc' = "get_credential" /\ UNCHANGED <<error, result>>
       ELSE Raise(Error("NotFoundException",
                        "Source connection has no integration credential", "precondition"))
    /\ UNCHANGED <<db, provider, args, local, source, embedding_model, destination,
                   transformers, log>>
    /\ UNCHANGED <<catVars, dagVars>>

GetIntegrationCredential ==
    /\ pc = "get_credential"
    /\ log' = Append(log, "crud.integration_credential.get")
    /\ LET credential == CredentialRow(db.connection.integration_credential_id)
       IN IF credential = None
          THEN /\ Raise(Error("NotFoundException",
                              "Source integration credential not found", "precondition"))
               /\ UNCHANGED local
          ELSE /\ local' = [local EXCEPT !.credential = credential]
               /\ pc' = "decrypt"
               /\ UNCHANGED <<error, result>>
    /\ UNCHANGED <<db, provider, args, source, embedding_model, destination,
                   transformers>>
    /\ UNCHANGED <<catVars, dagVars>>

Decrypt ==
    /\ pc = "decrypt"
    /\ log' = Append(log, "credentials.decrypt")
    /\ \E ok \in BOOLEAN :
         IF ok
         THEN /\ local' = [local EXCEPT !.decrypted_credential =
                                            decrypt(local.credential.encrypted_credentials)]
              /\ pc' = IF local.branch = "oauth2" THEN "construct_source"
                       ELSE "check_auth_config_class"
              /\ UNCHANGED <<error, result>>
         ELSE /\ Raise(Error("DecryptionError", "payload not decryptable", "collaborator"))
              /\ UNCHANGED local
    /\ UNCHANGED <<db, provider, args, source, embedding_model, destination,
                   transformers>>
    /\ UNCHANGED <<catVars, dagVars>>

CheckAuthConfigClass ==
    /\ pc = "check_auth_config_class"
    /\ IF db.source.auth_config_class = Null
       THEN Raise(Error("ValueError", "Auth config class required for auth type", "precondition"))
       ELSE pc' = "get_auth_config" /\ UNCHANGED <<error, result>>
    /\ UNCHANGED <<db, provider, args, local, source, embedding_model, destination,
                   transformers, log>>
    /\ UNCHANGED <<catVars, dagVars>>

GetAuthConfig ==
    /\ pc = "get_auth_config"
    /\ log' = Append(log, "resource_locator.get_auth_config")
    /\ \E ok \in BOOLEAN :
         IF ok
         THEN /\ local' = [local EXCEPT !.auth_config =
                                            get_auth_config(db.source.auth_config_class, Null)]
              /\ pc' = "model_validate"
              /\ UNCHANGED <<error, result>>
         ELSE /\ Raise(Error("ImportError", "auth config class not resolvable",
                             "collaborator"))
              /\ UNCHANGED local
    /\ UNCHANGED <<db, provider, args, source, embedding_model, destination,
                   transformers>>
    /\ UNCHANGED <<catVars, dagVars>>

ModelValidate ==
    /\ pc = "model_validate"
    /\ log' = Append(log, "auth_config.model_validate")
    /\ \E ok \in BOOLEAN :
         IF ok
         THEN /\ local' = [local EXCEPT !.source_credentials =
                              [kind |-> "credentials", schema |-> local.auth_config,
                               fields |-> local.decrypted_credential]]
              /\ pc' = "construct_source"
              /\ UNCHANGED <<error, result>>
         ELSE /\ Raise(Error("ValidationError", "field required", "collaborator"))
              /\ UNCHANGED local
    /\ UNCHANGED <<db, provider, args, source, embedding_model, destination,
                   transformers>>
    /\ UNCHANGED <<catVars, dagVars>>

\* Mutant: create builds the destination right after the source, before the
\* embedding model.
ConstructSource_ThenDestination ==
    /\ pc = "construct_source"
    /\ log' = Append(log, "source_class.create")
    /\ \E ok \in BOOLEAN :
         IF ok
         THEN /\ source' = [kind |-> "SourceInstance", class |-> local.source_class,
                            args |-> SourceArgs(local)]
              /\ pc' = "create_destination"
              /\ UNCHANGED <<error, result>>
         ELSE /\ Raise(Error("ConnectorError", "source not constructible", "collaborator"))
              /\ UNCHANGED source
    /\ UNCHANGED <<db, provider, args, local, embedding_model, destination, transformers>>
    /\ UNCHANGED <<catVars, dagVars>>

\* source_class.create(...), the last call of every branch
ConstructSource ==
    /\ pc = "construct_source"
    /\ log' = Append(log, "source_class.create")
    /\ \E ok \in BOOLEAN :
         IF ok
         THEN /\ source' = [kind |-> "SourceInstance", class |-> local.source_class,
                            args |-> SourceArgs(local)]
              /\ pc' = "get_embedding_model"
              /\ UNCHANGED <<error, result>>
         ELSE /\ Raise(Error("ConnectorError", "source not constructible", "collaborator"))
              /\ UNCHANGED source
    /\ UNCHANGED <<db, provider, args, local, embedding_model, destination, transformers>>
    /\ UNCHANGED <<catVars, dagVars>>

(***************************************************************************)
(* oauth2_service.refresh_access_token, called by                          *)
(* _create_oauth2_with_refresh_source.  The service's source is not part   *)
(* of this development; its steps follow the credential resolver's table   *)
(* of the specification: the connection must carry a credential reference, *)
(* the endpoint is called with the stored refresh token, and for a         *)
(* rotating strategy the newly issued refresh token is persisted before    *)
(* the service returns.                                                    *)
(***************************************************************************)
Rotating == db.source.auth_type = "oauth2_with_refresh_rotating"

RefreshCheckCredential ==
    /\ pc = "refresh_check"
    /\ log' = Append(log, "oauth2_service.refresh_access_token")
    /\ IF db.connection.integration_credential_id # Null
       THEN pc' = "refresh_load" /\ UNCHANGED <<error, result>>
       ELSE Raise(Error("NotFoundException", "Connection has no integration credential",
                        "precondition"))
    /\ UNCHANGED <<db, provider, args, local, source, embedding_model, destination,
                   transformers>>
    /\ UNCHANGED <<catVars, dagVars>>

RefreshLoadToken ==
    /\ pc = "refresh_load"
    /\ LET credential == CredentialRow(db.connection.integration_credential_id)
       IN IF credential = None
          THEN /\ Raise(Error("NotFoundException", "Integration credential not found",
                              "precondition"))
               /\ log' = Append(log, "crud.integration_credential.get")
               /\ UNCHANGED local
          ELSE \E ok \in BOOLEAN :
                 /\ log' = log \o <<"crud.integration_credential.get",
                                    "credentials.decrypt">>
                 /\ IF ok
                    THEN /\ local' = [local EXCEPT !.refresh_token =
                                decrypt(credential.encrypted_credentials).refresh_token]
                         /\ pc' = "refresh_call"
                         /\ UNCHANGED <<error, result>>
                    ELSE /\ Raise(Error("DecryptionError", "payload not decryptable",
                                        "collaborator"))
                         /\ UNCHANGED local
    /\ UNCHANGED <<db, provider, args, source, embedding_model, destination,
                   transformers>>
    /\ UNCHANGED <<catVars, dagVars>>

RefreshCallEndpoint ==
    /\ pc = "refresh_call"
    /\ log' = Append(log, "refresh_endpoint")
    /\ \E ok \in BOOLEAN, at \in FreshAccessTokens :
         IF ok /\ local.refresh_token = provider.valid_refresh_token
         THEN LET reply == [kind |-> "OAuth2TokenResponse", access_token |-> at,
                            refresh_token |-> IF Rotating THEN RotatedRefreshToken
                                              ELSE local.refresh_token]
              IN /\ provider' = [valid_refresh_token |-> reply.refresh_token,
                                 reply |-> reply]
                 /\ local' = [local EXCEPT !.oauth2_response = reply]
                 /\ pc' = IF Rotating THEN "refresh_persist" ELSE "construct_source"
                 /\ UNCHANGED <<error, result>>
         ELSE /\ Raise(Error("CredentialRefreshError", "refresh endpoint failed",
                             "collaborator"))
              /\ UNCHANGED <<provider, local>>
    /\ UNCHANGED <<db, args, source, embedding_model, destination, transformers>>
    /\ UNCHANGED <<catVars, dagVars>>

RefreshPersist ==
    /\ pc = "refresh_persist"
    /\ log' = Append(log, "persist_refresh_token")
    /\ \E ok \in BOOLEAN :
         IF ok
         THEN /\ db' = [db EXCEPT !.credential =
                            IntegrationCredential(local.oauth2_response.refresh_token)]
              /\ pc' = "construct_source"
              /\ UNCHANGED <<error, result>>
         ELSE /\ Raise(Error("PersistenceError", "rotated refresh token not saved",
                             "collaborator"))
              /\ UNCHANGED db
    /\ UNCHANGED <<provider, args, local, source, embedding_model, destination,
                   transformers>>
    /\ UNCHANGED <<catVars, dagVars>>

(***************************************************************************)
(* The rest of create                                                      *)
(***************************************************************************)
GetEmbeddingModel ==
    /\ pc = "get_embedding_model"
    /\ log' = Append(log, "LocalText2Vec")
    /\ \E ok \in BOOLEAN :
         IF ok
         THEN /\ embedding_model' = [kind |-> "LocalText2Vec"]
              /\ pc' = "create_destination"
              /\ UNCHANGED <<error, result>>
         ELSE /\ Raise(Error("EmbeddingModelError", "model not constructible",
                             "collaborator"))
              /\ UNCHANGED embedding_model
    /\ UNCHANGED <<db, provider, args, local, source, destination, transformers>>
    /\ UNCHANGED <<catVars, dagVars>>

CreateDestinationInstance ==
    /\ pc = "create_destination"
    /\ log' = Append(log, "WeaviateDestination.create")
    /\ \E ok \in BOOLEAN :
         IF ok
         THEN /\ destination' = [kind |-> "WeaviateDestination", sync_id |-> args.sync.id,
                                 embedding_model |-> embedding_model]
              /\ pc' = "get_transformers"
              /\ UNCHANGED <<error, result>>
         ELSE /\ Raise(Error("ConnectorError", "destination not constructible",
                             "collaborator"))
              /\ UNCHANGED destination
    /\ UNCHANGED <<db, provider, args, local, source, embedding_model, transformers>>
    /\ UNCHANGED <<catVars, dagVars>>

GetTransformerCallables ==
    /\ pc = "get_transformers"
    /\ log' = Append(log, "crud.transformer.get_all")
    /\ \E ok \in BOOLEAN :
         IF ok
         THEN /\ transformers' =
                    [kind |-> "dict",
                     items |-> {<<t.method_name, get_transformer(t)>> : t \in TransformerRows}]
              /\ pc' = "get_entity_map"
              /\ UNCHANGED <<error, result>>
         ELSE /\ Raise(Error("ImportError", "transformer not resolvable", "collaborator"))
              /\ UNCHANGED transformers
    /\ UNCHANGED <<db, provider, args, local, source, embedding_model, destination>>
    /\ UNCHANGED <<catVars, dagVars>>

\* `entity_map = await cls._get_entity_map(db, sync)` and everything after it:
\* the attribute is looked up on the class; progress, router and the returned
\* SyncContext follow only if the lookup and the call succeed.
FinishCreate ==
    /\ pc = "get_entity_map"
    /\ IF "_get_entity_map" \in SyncContextFactoryAttrs
       THEN \E ok \in BOOLEAN :
              IF ok
              THEN /\ log' = log \o <<"cls._get_entity_map", "SyncProgress", "SyncDAGRouter">>
                   /\ result' = SyncContext(source, destination, embedding_model,
                                    transformers, args.sync, args.sync_job, args.dag,
                                    [kind |-> "SyncProgress", job_id |-> args.sync_job.id],
                                    [kind |-> "SyncDAGRouter", dag |-> args.dag],
                                    args.white_label)
                   /\ pc' = "done"
                   /\ UNCHANGED error
              ELSE /\ log' = Append(log, "cls._get_entity_map")
                   /\ Raise(Error("CollaboratorError", "a later step failed", "collaborator"))
       ELSE /\ Raise(Error("AttributeError",
                           "SyncContextFactory has no attribute _get_entity_map", "factory"))
            /\ UNCHANGED log
    /\ UNCHANGED <<db, provider, args, local, source, embedding_model, destination,
                   transformers>>
    /\ UNCHANGED <<catVars, dagVars>>

CatIdle ==
    /\ document = <<>>
    /\ cat_pc = "idle"
    /\ integration_settings = None
    /\ cat_error = None
    /\ lookup = None

DagIdle ==
    /\ nodes = <<>>
    /\ edges = {}
    /\ definition = None

Init == AsmInit /\ CatIdle /\ DagIdle

Next ==
    \/ GetConnection
    \/ GetSourceModel
    \/ GetSourceClass
    \/ CheckCredential
    \/ GetIntegrationCredential
    \/ Decrypt
    \/ CheckAuthConfigClass
    \/ GetAuthConfig
    \/ ModelValidate
    \/ RefreshCheckCredential
    \/ RefreshLoadToken
    \/ RefreshCallEndpoint
    \/ RefreshPersist
    \/ ConstructSource
    \/ GetEmbeddingModel
    \/ CreateDestinationInstance
    \/ GetTransformerCallables
    \/ FinishCreate

Spec == Init /\ [][Next]_vars

(***************************************************************************)
(* Properties of one run of create (specification Spec)                    *)
(***************************************************************************)
Range(seq) == {seq[i] : i \in 1..Len(seq)}
Ended == pc \in {"done", "failed"}
AuthTypeIs(S) == db.source # None /\ db.source.auth_type \in S
InitialCredential == IntegrationCredential(StoredRefreshToken)

\* C1: whenever every collaborator call succeeds, create terminates normally
\* and returns one SyncContext holding exactly the values its steps produced;
\* no step of create fails on its own.
C1_CreateReturnsContext ==
    (Ended /\ (error = None \/ error.raised_by = "factory")) =>
        /\ pc = "done"
        /\ result = SyncContext(source, destination, embedding_model, transformers,
                        args.sync, args.sync_job, args.dag,
                        [kind |-> "SyncProgress", job_id |-> args.sync_job.id],
                        [kind |-> "SyncDAGRouter", dag |-> args.dag], args.white_label)

\* C2: for oauth2_with_refresh_rotating the connector is constructed only
\* after the refresh exchange completed and the rotated refresh token was
\* persisted; when the refresh or the persistence fails no connector is
\* constructed and create returns no SyncContext.
C2_RotatingPersistedBeforeConstruct ==
    AuthTypeIs({"oauth2_with_refresh_rotating"}) =>
        /\ "source_class.create" \in Range(log) =>
              /\ provider.reply # None
              /\ provider.reply.refresh_token = RotatedRefreshToken
              /\ db.credential = IntegrationCredential(provider.reply.refresh_token)
        /\ source # None =>
              source.args = <<AccessTokenArg(provider.reply.access_token)>>
        /\ (pc = "failed" /\ error.type \in {"CredentialRefreshError", "PersistenceError"}) =>
              /\ "source_class.create" \notin Range(log)
              /\ source = None
              /\ result = None

C2_Witness ==
    /\ AuthTypeIs({"oauth2_with_refresh_rotating"})
    /\ source # None
    /\ db.credential = IntegrationCredential(RotatedRefreshToken)

\* C3 (as stated): if any step of create fails, create returns no SyncContext,
\* the error of the failing step reaches the caller, and state changed by an
\* earlier step (a rotated refresh token) is not left changed.
C3_FailedAssemblyLeavesNoChange ==
    pc = "failed" =>
        /\ result = None
        /\ error # None
        /\ db.credential \in {None, InitialCredential}

\* C3 (amended): if any step of create fails, create returns no SyncContext and
\* the error of the failing step reaches the caller; nothing an earlier step
\* changed is undone: a refresh token rotated and persisted while the source
\* was created stays rotated when a later step fails.
C3_FailedAssemblyReturnsNothing ==
    pc = "failed" =>
        /\ result = None
        /\ error # None
        /\ (AuthTypeIs({"oauth2_with_refresh_rotating"})
              /\ "source_class.create" \in Range(log)) =>
                 /\ db.credential = IntegrationCredential(RotatedRefreshToken)
                 /\ provider.valid_refresh_token = RotatedRefreshToken

C3_Witness ==
    /\ pc = "failed"
    /\ AuthTypeIs({"oauth2_with_refresh_rotating"})
    /\ destination # None
    /\ db.credential = IntegrationCredential(RotatedRefreshToken)

\* C8: for a source whose strategy is none or native_functionality, source
\* creation looks up no credential, decrypts nothing, calls no refresh, needs
\* no credential reference and constructs the connector without arguments.
C8_NoCredentialForNoneAndNative ==
    AuthTypeIs({"none", "native_functionality"}) =>
        /\ Range(log) \cap {"crud.integration_credential.get", "credentials.decrypt",
                            "oauth2_service.refresh_access_token", "refresh_endpoint"} = {}
        /\ source # None => source.args = <<>>
        /\ pc = "failed" => error.msg # "Source connection has no integration credential"

\* C9: for every strategy that needs a stored credential, a connection
\* without credential reference makes source creation fail with a not-found
\* error for the credential (once connection, descriptor and connector class
\* are resolved), before any decryption or refresh call and without
\* constructing a connector; a missing connection fails with a not-found
\* error for the connection.
NeedsStoredCredential == AuthType \ {"none", "native_functionality"}

C9_MissingCredentialReference ==
    /\ (db.connection = None /\ pc # "get_connection") =>
          /\ pc = "failed"
          /\ error = Error("NotFoundException", "Source connection not found",
                           "precondition")
          /\ source = None
    /\ (/\ db.connection # None
        /\ db.connection.integration_credential_id = Null
        /\ AuthTypeIs(NeedsStoredCredential)) =>
          /\ Range(log) \cap {"credentials.decrypt", "refresh_endpoint",
                              "source_class.create"} = {}
          /\ source = None
          /\ pc # "done"
          /\ (pc = "failed" /\ local.source_class # None) =>
                /\ error.type = "NotFoundException"
                /\ error.msg \in {"Source connection has no integration credential",
                                  "Connection has no integration credential"}

C9_Witness ==
    /\ pc = "failed"
    /\ db.connection # None
    /\ db.connection.integration_credential_id = Null
    /\ AuthTypeIs({"oauth2"})
    /\ db.credential # None
    /\ error.type = "NotFoundException"
    /\ local.source_class # None

\* C10: for oauth2_with_refresh the connector gets exactly the access token
\* the refresh endpoint returned and the stored refresh token is what it was;
\* for plain oauth2 the connector gets the decrypted stored access token and
\* the refresh endpoint is never called.
C10_RefreshAndPlainOAuth2 ==
    /\ AuthTypeIs({"oauth2_with_refresh"}) =>
          /\ db.credential \in {None, InitialCredential}
          /\ source # None =>
                /\ provider.reply # None
                /\ source.args = <<AccessTokenArg(provider.reply.access_token)>>
    /\ AuthTypeIs({"oauth2"}) =>
          /\ Range(log) \cap {"oauth2_service.refresh_access_token",
                              "refresh_endpoint"} = {}
          /\ provider.reply = None
          /\ source # None =>
                source.args = <<AccessTokenArg(
                    decrypt(db.credential.encrypted_credentials).access_token)>>

C10_Witness ==
    /\ AuthTypeIs({"oauth2_with_refresh"})
    /\ source # None
    /\ provider.reply # None
    /\ provider.reply.access_token = "at_fresh_2"

\* the steps of create, in the order the claim gives them; the code has no
\* DAG validation step, the entity-map call stands where it would be
StepOrder ==
    <<"source_class.create", "LocalText2Vec", "WeaviateDestination.create",
      "crud.transformer.get_all", "cls._get_entity_map", "SyncProgress", "SyncDAGRouter">>

\* every call of b in the log has a call of a before it
Before(a, b) ==
    \A j \in 1..Len(log) : log[j] = b => \E i \in 1..(j - 1) : log[i] = a

\* the credential of the branch taken is complete
CredentialResolved ==
    CASE local.branch = "no_auth" -> TRUE
      [] local.branch = "oauth2" ->
            /\ local.decrypted_credential # None
            /\ Before("credentials.decrypt", "source_class.create")
      [] local.branch = "oauth2_with_refresh" ->
            /\ local.oauth2_response # None
            /\ Before("refresh_endpoint", "source_class.create")
            /\ Rotating =>
                  /\ Before("persist_refresh_token", "source_class.create")
                  /\ db.credential =
                        IntegrationCredential(local.oauth2_response.refresh_token)
      [] OTHER ->
            /\ local.source_credentials # None
            /\ Before("auth_config.model_validate", "source_class.create")

C12_SchemaResolvedForStrategy ==
    AuthTypeIs({"sigv4", "config_class"}) =>
        /\ local.source_credentials # None =>
              local.source_credentials.schema =
                  get_auth_config(db.source.auth_config_class, db.source.auth_type)
        /\ "source_class.create" \in Range(log) =>
              /\ local.source_credentials # None
              /\ Before("auth_config.model_validate", "source_class.create")


(***************************************************************************)
(* IntegrationSettings: the auth catalog                                   *)
(***************************************************************************)
MaxEntries == 2

\* short names of the integrations of a document, in file order
ShortNames == <<"hubspot", "local_files", "s3", "trello">>

\* what a document may carry as auth_type; "" stands for an entry without
\* the key (config.get("auth_type", "")), "saml" for a tag no strategy has
Tags == AuthType \cup {"", "saml"}

\* the entry's other fields are taken to satisfy its settings class
Config(tag) == [auth_type |-> tag]

Documents ==
    UNION {[1..n -> {Config(t) : t \in Tags}] : n \in 0..MaxEntries}

mapping ==
    [oauth2 |-> "OAuth2Settings",
     trello_auth |-> "TrelloAuthSettings",
     api_key |-> "APIKeyAuthSettings",
     oauth2_with_refresh |-> "OAuth2WithRefreshSettings",
     oauth2_with_refresh_rotating |-> "OAuth2WithRefreshRotatingSettings",
     native_functionality |-> "NativeFunctionalityAuthSettings",
     config_class |-> "ConfigClassAuthSettings",
     sigv4 |-> "SigV4Settings",
     none |-> Null]

\* _parse_integration: the settings object, or the ValueError raised
parse_integration(name, config) ==
    LET auth_type == config.auth_type
        model == IF auth_type \in DOMAIN mapping THEN mapping[auth_type] ELSE Null
    IN IF model # Null
       THEN [kind |-> "settings", class |-> model, auth_type |-> auth_type,
             integration_short_name |-> name]
       ELSE [kind |-> "ValueError", msg |-> "Unsupported auth_type for integration",
             integration |-> name, auth_type |-> auth_type]

\* load_settings: the loop over data.items(), up to its first failure.
\* Yields self._settings as a set of <<name, settings>> items and the error.
RECURSIVE load_settings(_, _, _)
load_settings(data, i, acc) ==
    IF i > Len(data)
    THEN [settings |-> acc, error |-> None]
    ELSE LET parsed == parse_integration(ShortNames[i], data[i])
         IN IF parsed.kind = "ValueError"
            THEN [settings |-> acc, error |-> parsed]
            ELSE load_settings(data, i + 1,
                     {item \in acc : item[1] # ShortNames[i]} \cup {<<ShortNames[i], parsed>>})

\* self._settings.get(short_name)
SettingsGet(items, short_name) ==
    IF \E item \in items : item[1] = short_name
    THEN (CHOOSE item \in items : item[1] = short_name)[2]
    ELSE None

\* get_by_short_name: the settings, or the KeyError raised
get_by_short_name(self, short_name) ==
    LET found == SettingsGet(self.settings, short_name)
    IN IF found = None
       THEN [kind |-> "KeyError", msg |-> "Integration settings not found",
             integration |-> short_name]
       ELSE found

CatInit ==
    /\ document \in Documents
    /\ cat_pc = "new"
    /\ integration_settings = None
    /\ cat_error = None
    /\ lookup = None

InitCatalog == CatInit /\ AsmIdle /\ DagIdle

\* integration_settings = IntegrationSettings(yaml_file_path)
LoadCatalog ==
    /\ cat_pc = "new"
    /\ LET loaded == load_settings(document, 1, {})
       IN IF loaded.error = None
          THEN /\ integration_settings' =
                     [kind |-> "IntegrationSettings", settings |-> loaded.settings]
               /\ cat_pc' = "loaded"
               /\ UNCHANGED cat_error
          ELSE /\ cat_error' = loaded.error
               /\ cat_pc' = "failed"
               /\ UNCHANGED integration_settings
    /\ UNCHANGED <<document, lookup>>
    /\ UNCHANGED <<asmVars, dagVars>>

\* integration_settings.get_by_short_name(short_name), by any caller
GetByShortName ==
    /\ cat_pc = "loaded"
    /\ \E i \in 1..(MaxEntries + 1) :
         lookup' = [kind |-> "lookup", short_name |-> ShortNames[i],
                    outcome |-> get_by_short_name(integration_settings, ShortNames[i])]
    /\ UNCHANGED <<document, cat_pc, integration_settings, cat_error>>
    /\ UNCHANGED <<asmVars, dagVars>>

CatNext ==
    \/ LoadCatalog
    \/ GetByShortName

SpecCatalog == InitCatalog /\ [][CatNext]_vars

(***************************************************************************)
(* Properties of the catalog (specification SpecCatalog)                   *)
(***************************************************************************)
AllTagsEnumerated == \A i \in 1..Len(document) : document[i].auth_type \in AuthType

\* C6: for every document whose entries all carry an enumerated strategy tag
\* ("none" included) loading succeeds, and get_by_short_name returns for every
\* integration of the document a strategy whose tag is the entry's auth_type.
C6_EnumeratedTagsLoad ==
    (AllTagsEnumerated /\ cat_pc # "new") =>
        /\ cat_pc = "loaded"
        /\ \A i \in 1..Len(document) :
              LET got == get_by_short_name(integration_settings, ShortNames[i])
              IN got.kind = "settings" /\ got.auth_type = document[i].auth_type
        /\ (lookup # None /\ \E i \in 1..Len(document) : ShortNames[i] = lookup.short_name) =>
              lookup.outcome.kind = "settings"

\* C7: loading fails if and only if some entry carries a tag outside the
\* enumerated strategies (a missing tag counts as unknown); the failure names
\* the offending integration and tag, and no catalog is available after it.
C7_LoadFailsIffUnknownTag ==
    cat_pc # "new" =>
        /\ cat_pc = "failed" <=> ~AllTagsEnumerated
        /\ cat_pc = "failed" =>
              /\ integration_settings = None
              /\ cat_error.kind = "ValueError"
              /\ \E i \in 1..Len(document) :
                    /\ document[i].auth_type \notin AuthType
                    /\ cat_error.integration = ShortNames[i]
                    /\ cat_error.auth_type = document[i].auth_type

(***************************************************************************)
(* The DAG schemas: DagNode, DagEdge, SyncDagDefinition                    *)
(***************************************************************************)
MaxNodes == 2

NodeTypes == {"source", "destination", "transformer", "entity"}

\* what a caller may pass for a node: `type` possibly absent, either
\* reference possibly absent
RawNodes ==
    [type : NodeTypes \cup {Null}, connection_id : {Null, "conn-1"},
     entity_definition_id : {Null, "entdef-1"}]

\* DagNodeBase's field validation: `type: str` is required, the two
\* references are Optional with default None; the class has no validator.
DagNodeBaseAccepts(raw) == raw.type # Null

\* SyncDagDefinition's field validation: a list of DagNode and a list of
\* DagEdge; the class has no validator.
SyncDagDefinitionAccepts(ns, es) == TRUE

DagInit ==
    /\ nodes = <<>>
    /\ edges = {}
    /\ definition = None

InitDag == DagInit /\ AsmIdle /\ CatIdle

\* DagNode(id=..., type=..., connection_id=..., entity_definition_id=...)
NewDagNode ==
    /\ definition = None
    /\ Len(nodes) < MaxNodes
    /\ \E raw \in RawNodes :
         /\ DagNodeBaseAccepts(raw)
         /\ nodes' = Append(nodes,
                [kind |-> "DagNode", id |-> Len(nodes) + 1, type |-> raw.type,
                 connection_id |-> raw.connection_id,
                 entity_definition_id |-> raw.entity_definition_id])
    /\ UNCHANGED <<edges, definition>>
    /\ UNCHANGED <<asmVars, catVars>>

\* DagEdge(from_node_id=..., to_node_id=...): any two ids are accepted, whether
\* or not a node carries them; the edges are kept as a set, a repeated edge
\* adds nothing
NewDagEdge ==
    /\ definition = None
    /\ \E f \in 1..MaxNodes, t \in 1..MaxNodes :
         /\ edges' = edges \cup {[kind |-> "DagEdge", from_node_id |-> f, to_node_id |-> t]}
    /\ UNCHANGED <<nodes, definition>>
    /\ UNCHANGED <<asmVars, catVars>>

\* SyncDagDefinition(nodes=..., edges=...)
NewSyncDagDefinition ==
    /\ definition = None
    /\ SyncDagDefinitionAccepts(nodes, edges)
    /\ definition' = [kind |-> "SyncDagDefinition", nodes |-> nodes, edges |-> edges]
    /\ UNCHANGED <<nodes, edges>>
    /\ UNCHANGED <<asmVars, catVars>>

DagNext ==
    \/ NewDagNode
    \/ NewDagEdge
    \/ NewSyncDagDefinition

SpecDag == InitDag /\ [][DagNext]_vars

(***************************************************************************)
(* Properties of the DAG schemas (specification SpecDag)                   *)
(***************************************************************************)
RECURSIVE Closure(_, _)
Closure(R, k) ==
    IF k = 0 THEN R
    ELSE Closure(R \cup {<<p[1], q[2]>> : <<p, q>> \in {pq \in R \X R : pq[1][2] = pq[2][1]}},
                 k - 1)

Reaches(es) == Closure({<<e.from_node_id, e.to_node_id>> : e \in es}, MaxNodes + 1)

\* a directed cycle among two or more nodes
HasCycle(es) ==
    \E p \in Reaches(es) : p[1] # p[2] /\ <<p[2], p[1]>> \in Reaches(es)

\* every edge of the definition joins two of its nodes
EdgesJoinNodes(d) ==
    \A e \in d.edges : {e.from_node_id, e.to_node_id} \subseteq 1..Len(d.nodes)

\* C4: a DAG definition whose edges contain a directed cycle among two or
\* more of its nodes is rejected: no such definition is ever accepted.
C4_CyclicDefinitionRejected ==
    (definition # None /\ EdgesJoinNodes(definition)) => ~HasCycle(definition.edges)

RequiredReference(n) ==
    CASE n.type \in {"source", "destination"} ->
            n.connection_id # Null /\ n.entity_definition_id = Null
      [] n.type = "entity" ->
            n.entity_definition_id # Null /\ n.connection_id = Null
      [] OTHER ->
            n.connection_id = Null /\ n.entity_definition_id = Null

\* C5: every DAG node the model accepts has exactly the reference its type
\* requires: connection_id alone for source and destination nodes,
\* entity_definition_id alone for entity nodes, neither for transformers.
C5_NodeReferenceMatchesType ==
    \A i \in 1..Len(nodes) : RequiredReference(nodes[i])

====
